---- MODULE Spec2Model ----
(***************************************************************************)
(* State-machine model of examples/TextToSpeech.XttsDemo/python/           *)
(* xtts_generate.py: the import guard, argument parsing, the three path    *)
(* checks, and the four delegated steps load_model,                        *)
(* compute_speaker_latents, generate_speech and save_audio.                *)
(*                                                                         *)
(* Conventions.  An optional value (Python None / not yet assigned) is a   *)
(* sequence of length 0, a present value x is <<x>>.  Command-line tokens  *)
(* and the language string are sequences of one-character strings.  A      *)
(* float is represented by its value in hundredths (0.75 is 75).           *)
(* The TTS / torch / torchaudio libraries are outside the repository: the  *)
(* outcome of each library call is a nondeterministic input of the action  *)
(* that makes the call.                                                    *)
(***************************************************************************)
EXTENDS Integers, Sequences, FiniteSets, TLC

VARIABLES
  pc,             \* position of the process in the script
  installed,      \* third-party packages importable in the environment
  fs,             \* which of the three required input paths exist
  outFile0,       \* the file at the output path before the run
  outFile,        \* the file at the output path now
  argv,           \* the command line read by parse_args
  args,           \* the argparse Namespace, once parse_args returned
  stderr,         \* messages written to the error stream
  exitCode,       \* the process exit status, once exited
  steps,          \* delegated steps invoked so far, with their outcome
  ckpt,           \* content of the finetuned checkpoint file read by torch.load
  model,          \* the model handle returned by load_model
  latents,        \* the pair returned by compute_speaker_latents
  latentsCall,    \* arguments of model.get_conditioning_latents
  inferenceCall,  \* keyword arguments of model.inference
  audio_output,   \* the dict returned by model.inference
  audio_tensor,   \* torch.tensor(audio_output["wav"])
  saveCall        \* arguments of torchaudio.save

vars == <<pc, installed, fs, outFile0, outFile, argv, args, stderr, exitCode,
          steps, ckpt, model, latents, latentsCall, inferenceCall,
          audio_output, audio_tensor, saveCall>>

------------------------------------------------------------------------------
(* Bounds of the model *)

\* at most this many optional flags appear on the command line
MaxOptArgs == 1
\* the buffer returned by inference has 0..MaxDims dimensions
MaxDims == 3

------------------------------------------------------------------------------
(* Program constants *)

DefaultLanguage == <<"c", "s">>
DefaultTemperature == 75
DefaultRepetitionPenalty == 300
DefaultTopK == 50
DefaultTopP == 85
DefaultDevice == <<"c", "p", "u">>
DeviceChoices == {<<"c", "p", "u">>, <<"c", "u", "d", "a">>}
DefaultSampleRate == 24000

Packages == {"torch", "TTS", "torchaudio"}
\* the packages imported inside the try block at module level
GuardedImports == {"torch", "TTS"}

RequiredFlags == {"base_model", "finetuned", "reference_audio", "text", "output"}
FloatFlags == {"temperature", "repetition_penalty", "top_p"}
IntFlags == {"top_k"}

\* the delegated steps called by main, in the order of the calls
StepOrder == <<"load_model", "compute_speaker_latents", "generate_speech", "save_audio">>

------------------------------------------------------------------------------
(* Inputs: the values given on the command line and the environment *)

BasePath == "/models/xtts"
FinetunedPath == "/models/best_model.pth"
ReferencePath == "/voices/ref.wav"
OutputPath == "/tmp/out.wav"
TextValue == "Dobry den"
RequiredPaths == {BasePath, FinetunedPath, ReferencePath}

FloatTokens == {<<"1">>, <<"0", ".", "5">>, <<"x">>}
IntTokens == {<<"5">>, <<"0", "5">>, <<"0", ".", "5">>}
LanguageTokens == {<<"e", "n">>}
DeviceTokens == {<<"c", "u", "d", "a">>, <<"t", "p", "u">>}

TokensFor(flag) ==
  IF flag \in FloatFlags THEN FloatTokens
  ELSE IF flag \in IntFlags THEN IntTokens
  ELSE IF flag = "language" THEN LanguageTokens
  ELSE IF flag = "device" THEN DeviceTokens
  ELSE {<<>>}

OptFlags == FloatFlags \cup IntFlags \cup {"language", "device", "help"}
OptArgs == UNION {{[flag |-> f, tok |-> t] : t \in TokensFor(f)} : f \in OptFlags}
OptLines == UNION {[1..n -> OptArgs] : n \in 0..MaxOptArgs}
\* command lines: every required flag given, or exactly one left out
RequiredGiven == {RequiredFlags} \cup {RequiredFlags \ {f} : f \in RequiredFlags}
CommandLines == {[req |-> r, opt |-> o] : r \in RequiredGiven, o \in OptLines}

\* sample rates a model configuration may carry
ConfigSampleRates == {22050, 24000}

\* state dicts: parameter name -> shape (a shape is abstracted to a number)
ParamNames == {"w", "x"}
ParamShapes == {1, 2}
BaseStateDict == [n \in {"w"} |-> 1]
StateDicts == UNION {[D -> ParamShapes] : D \in SUBSET ParamNames}
\* what torch.load finds in the finetuned file
CheckpointFiles ==
  {[readable |-> FALSE, hasModel |-> FALSE, sd |-> <<>>],
   [readable |-> TRUE, hasModel |-> FALSE, sd |-> <<>>]}
  \cup {[readable |-> TRUE, hasModel |-> TRUE, sd |-> s] : s \in StateDicts}

\* shapes of the "wav" buffer inference may return: n dimensions of 2 entries
SamplesPerDim == 2
WavShapes == {[i \in 1..n |-> SamplesPerDim] : n \in 0..MaxDims}

------------------------------------------------------------------------------
(* argparse type conversion *)

Digits == {"0", "1", "2", "3", "4", "5", "6", "7", "8", "9"}

DigitVal(c) ==
  CASE c = "0" -> 0 [] c = "1" -> 1 [] c = "2" -> 2 [] c = "3" -> 3
    [] c = "4" -> 4 [] c = "5" -> 5 [] c = "6" -> 6 [] c = "7" -> 7
    [] c = "8" -> 8 [] c = "9" -> 9

IsDigits(s) == \A i \in 1..Len(s) : s[i] \in Digits

RECURSIVE DecVal(_)
DecVal(s) ==
  IF Len(s) = 0 THEN 0
  ELSE DecVal(SubSeq(s, 1, Len(s) - 1)) * 10 + DigitVal(s[Len(s)])

\* int(token): <<value>>, or <<>> when int() raises ValueError
ParseInt(s) == IF Len(s) > 0 /\ IsDigits(s) THEN <<DecVal(s)>> ELSE <<>>

\* float(token) in hundredths: <<value>>, or <<>> when float() raises ValueError
ParseFloat(s) ==
  LET dots == {i \in 1..Len(s) : s[i] = "."} IN
  IF dots = {} THEN (IF Len(s) > 0 /\ IsDigits(s) THEN <<DecVal(s) * 100>> ELSE <<>>)
  ELSE IF Cardinality(dots) = 1 THEN
    LET d == CHOOSE i \in dots : TRUE
        ip == SubSeq(s, 1, d - 1)
        fp == SubSeq(s, d + 1, Len(s))
    IN IF IsDigits(ip) /\ IsDigits(fp) /\ Len(ip) + Len(fp) > 0 /\ Len(fp) <= 2
       THEN <<DecVal(ip) * 100
              + (IF Len(fp) = 1 THEN DecVal(fp) * 10 ELSE DecVal(fp))>>
       ELSE <<>>
  ELSE <<>>

\* the value argparse stores for `flag` given `tok`, or <<>> on a usage error
Convert(flag, tok) ==
  IF flag \in FloatFlags THEN ParseFloat(tok)
  ELSE IF flag \in IntFlags THEN ParseInt(tok)
  ELSE IF flag = "device" THEN (IF tok \in DeviceChoices THEN <<tok>> ELSE <<>>)
  ELSE <<tok>>

\* the Namespace before any optional flag is seen: the declared defaults
Defaults ==
  [base_model |-> BasePath, finetuned |-> FinetunedPath,
   reference_audio |-> ReferencePath, text |-> TextValue, output |-> OutputPath,
   language |-> DefaultLanguage, temperature |-> DefaultTemperature,
   repetition_penalty |-> DefaultRepetitionPenalty, top_k |-> DefaultTopK,
   top_p |-> DefaultTopP, device |-> DefaultDevice]

\* argparse consumes the optional flags left to right: -h exits at once, a
\* token its type rejects is a usage error, a repeated flag overwrites
RECURSIVE ParseOpts(_, _)
ParseOpts(opts, ns) ==
  IF Len(opts) = 0 THEN [status |-> "ok", ns |-> ns]
  ELSE LET h == Head(opts) IN
    IF h.flag = "help" THEN [status |-> "help", ns |-> ns]
    ELSE LET v == Convert(h.flag, h.tok) IN
      IF Len(v) = 0 THEN [status |-> "error", ns |-> ns]
      ELSE ParseOpts(Tail(opts), [ns EXCEPT ![h.flag] = v[1]])

\* parser.parse_args(): required flags are checked after all tokens are consumed
parse_args(line) ==
  LET r == ParseOpts(line.opt, Defaults) IN
  IF r.status = "ok" /\ line.req # RequiredFlags
  THEN [status |-> "error", ns |-> r.ns]
  ELSE r

------------------------------------------------------------------------------
(* Messages and process exit *)

Msg(kind, arg) == [kind |-> kind, arg |-> arg]

\* sys.exit(code) after printing msgs
Exit(msgs, code) ==
  /\ stderr' = stderr \o msgs
  /\ exitCode' = <<code>>
  /\ pc' = "exited"

\* variant: the exception is caught and the process ends with status 0
RaiseExitZero(msgs, exc) == Exit(msgs \o <<Msg("traceback", exc)>>, 0)

\* an exception nobody catches: traceback on stderr, exit status 1
Raise(msgs, exc) == Exit(msgs \o <<Msg("traceback", exc)>>, 1)

Init ==
  /\ pc = "import"
  /\ installed \in SUBSET Packages
  /\ fs \in SUBSET RequiredPaths
  /\ outFile0 \in {"absent", "old"}
  /\ outFile = outFile0
  /\ argv = <<>>
  /\ args = <<>>
  /\ stderr = <<>>
  /\ exitCode = <<>>
  /\ steps = <<>>
  /\ ckpt = <<>>
  /\ model = <<>>
  /\ latents = <<>>
  /\ latentsCall = <<>>
  /\ inferenceCall = <<>>
  /\ audio_output = <<>>
  /\ audio_tensor = <<>>
  /\ saveCall = <<>>

\* lines 14-21: the guarded module-level imports
ImportGuard ==
  /\ pc = "import"
  /\ IF GuardedImports \subseteq installed
     THEN /\ pc' = "parse"
          /\ UNCHANGED <<stderr, exitCode>>
     ELSE Exit(<<Msg("ERROR: Required packages not installed. Install with:", ""),
                 Msg("pip install TTS torch", "")>>, 1)
  /\ UNCHANGED <<installed, fs, outFile0, outFile, argv, args, steps, ckpt, model,
                 latents, latentsCall, inferenceCall, audio_output, audio_tensor,
                 saveCall>>

\* lines 108-176: parser.parse_args()
ParseArgs ==
  /\ pc = "parse"
  /\ \E line \in CommandLines :
       LET r == parse_args(line) IN
       /\ argv' = <<line>>
       /\ IF r.status = "ok"
          THEN /\ args' = <<r.ns>>
               /\ pc' = "check_base_model"
               /\ UNCHANGED <<stderr, exitCode>>
          ELSE IF r.status = "help"
          THEN /\ args' = args
               /\ Exit(<<>>, 0)
          ELSE /\ args' = args
               /\ Exit(<<Msg("usage", "")>>, 2)
  /\ UNCHANGED <<installed, fs, outFile0, outFile, steps, ckpt, model, latents,
                 latentsCall, inferenceCall, audio_output, audio_tensor, saveCall>>

\* one `if not os.path.exists(path)` block of lines 178-189
CheckPath(here, path, text, next) ==
  /\ pc = here
  /\ IF path \in fs
     THEN /\ pc' = next
          /\ UNCHANGED <<stderr, exitCode>>
     ELSE Exit(<<Msg(text, path)>>, 1)
  /\ UNCHANGED <<installed, fs, outFile0, outFile, argv, args, steps, ckpt, model,
                 latents, latentsCall, inferenceCall, audio_output, audio_tensor,
                 saveCall>>

\* variant: the message is printed but sys.exit(1) is left out
CheckBaseModelNoExit ==
  /\ pc = "check_base_model"
  /\ pc' = "check_finetuned"
  /\ stderr' = IF args[1].base_model \in fs THEN stderr
               ELSE stderr \o <<Msg("ERROR: Base model not found", args[1].base_model)>>
  /\ UNCHANGED <<installed, fs, outFile0, outFile, argv, args, exitCode, steps, ckpt,
                 model, latents, latentsCall, inferenceCall, audio_output,
                 audio_tensor, saveCall>>

\* lines 179-181
CheckBaseModel ==
  CheckPath("check_base_model", args[1].base_model,
            "ERROR: Base model not found", "check_finetuned")

\* variant: the second check tests args.base_model again
CheckFinetunedWrongPath ==
  CheckPath("check_finetuned", args[1].base_model,
            "ERROR: Finetuned checkpoint not found", "check_reference_audio")

\* lines 183-185
CheckFinetuned ==
  CheckPath("check_finetuned", args[1].finetuned,
            "ERROR: Finetuned checkpoint not found", "check_reference_audio")

\* variant: a stale output file is removed when validation fails
CheckReferenceAudioClearingOutput ==
  /\ pc = "check_reference_audio"
  /\ IF args[1].reference_audio \in fs
     THEN /\ pc' = "load_model"
          /\ UNCHANGED <<stderr, exitCode, outFile>>
     ELSE /\ outFile' = "absent"
          /\ Exit(<<Msg("ERROR: Reference audio not found", args[1].reference_audio)>>, 1)
  /\ UNCHANGED <<installed, fs, outFile0, argv, args, steps, ckpt, model,
                 latents, latentsCall, inferenceCall, audio_output, audio_tensor,
                 saveCall>>

\* lines 187-189
CheckReferenceAudio ==
  CheckPath("check_reference_audio", args[1].reference_audio,
            "ERROR: Reference audio not found", "load_model")

------------------------------------------------------------------------------
(* The delegated steps *)

\* variant: a step that raised is called again
StepReturnsRetrying(fn, exc, msgs, next) ==
  /\ steps' = Append(steps, [fn |-> fn, ok |-> exc = ""])
  /\ pc' = IF exc = "" THEN next ELSE pc
  /\ stderr' = stderr \o msgs
  /\ UNCHANGED exitCode

\* main has no try/except: a delegated step that returns lets main go on to
\* `next`, one that raises ends the process with the traceback
\* (exc is the exception the step raised, "" when it returned)
StepReturns(fn, exc, msgs, next) ==
  /\ steps' = Append(steps, [fn |-> fn, ok |-> exc = ""])
  /\ IF exc = ""
     THEN /\ pc' = next
          /\ stderr' = stderr \o msgs
          /\ UNCHANGED exitCode
     ELSE Raise(msgs, exc)

\* torch.nn.Module.load_state_dict(sd, strict): the names that make it raise.
\* A shape conflict on a shared name always does; names missing from sd or
\* unexpected in sd do only under strict=True.
load_state_dict(sd, strict) ==
  LET size_mismatch == {n \in DOMAIN sd \cap DOMAIN BaseStateDict : sd[n] # BaseStateDict[n]}
      missing == DOMAIN BaseStateDict \ DOMAIN sd
      unexpected == DOMAIN sd \ DOMAIN BaseStateDict
  IN size_mismatch \cup (IF strict THEN missing \cup unexpected ELSE {})

\* variant: strict=True
LoadFinetunedWeightsStrict(sd) == load_state_dict(sd, TRUE)

\* line 40: model.load_state_dict(checkpoint["model"], strict=False)
LoadFinetunedWeights(sd) == load_state_dict(sd, FALSE)

\* lines 39-42: the exception raised while the finetuned file is loaded and
\* the model moved to the device, "" when there is none
FinetunedLoadError(file, deviceOk) ==
  IF ~file.readable THEN "torch.load: UnpicklingError"
  ELSE IF ~file.hasModel THEN "checkpoint['model']: KeyError"
  ELSE IF LoadFinetunedWeights(file.sd) # {} THEN "load_state_dict: RuntimeError"
  ELSE IF ~deviceOk THEN "model.to: RuntimeError"
  ELSE ""

\* lines 24-46 called from line 192.  baseOk: the config and base checkpoint
\* load (lines 29-35); deviceOk: model.to(device) (line 42)
LoadModel ==
  /\ pc = "load_model"
  /\ \E baseOk \in BOOLEAN, deviceOk \in BOOLEAN, rate \in ConfigSampleRates,
        file \in CheckpointFiles :
       LET a == args[1]
           m1 == <<Msg("Loading base model from", a.base_model)>>
           m2 == m1 \o <<Msg("Loading finetuned weights from", a.finetuned)>>
           m3 == m2 \o <<Msg("Model loaded on device", "")>>
           exc == FinetunedLoadError(file, deviceOk)
       IN
       IF ~baseOk
       THEN /\ StepReturns("load_model", "load_checkpoint: Exception", m1,
                           "compute_speaker_latents")
            /\ UNCHANGED <<ckpt, model>>
       ELSE /\ ckpt' = <<file>>
            /\ model' = IF exc = ""
                        THEN <<[output_sample_rate |-> rate, device |-> a.device]>>
                        ELSE model
            /\ StepReturns("load_model", exc, IF exc = "" THEN m3 ELSE m2,
                           "compute_speaker_latents")
  /\ UNCHANGED <<installed, fs, outFile0, outFile, argv, args, latents, latentsCall,
                 inferenceCall, audio_output, audio_tensor, saveCall>>

\* what the library derives from a reference audio file
GptCondLatentOf(path) == [kind |-> "gpt_cond_latent", of |-> path]
SpeakerEmbeddingOf(path) == [kind |-> "speaker_embedding", of |-> path]

\* lines 49-60 called from lines 195-197
ComputeSpeakerLatents ==
  /\ pc = "compute_speaker_latents"
  /\ \E ok \in BOOLEAN :
       LET path == args[1].reference_audio
           m == <<Msg("Computing speaker latents from", path)>>
       IN
       /\ latentsCall' = <<[audio_path |-> <<path>>]>>
       /\ latents' = IF ok
                     THEN <<[gpt_cond_latent |-> GptCondLatentOf(path),
                             speaker_embedding |-> SpeakerEmbeddingOf(path)]>>
                     ELSE latents
       /\ StepReturns("compute_speaker_latents",
                      IF ok THEN "" ELSE "get_conditioning_latents: Exception", m,
                      "generate_speech")
  /\ UNCHANGED <<installed, fs, outFile0, outFile, argv, args, ckpt, model,
                 inferenceCall, audio_output, audio_tensor, saveCall>>

\* lines 77-86: the keyword arguments generate_speech hands to model.inference
generate_speech(text, gpt_cond_latent, speaker_embedding, language, temperature, repetition_penalty, top_k, top_p) ==
  [text |-> text, language |-> language, gpt_cond_latent |-> gpt_cond_latent,
   speaker_embedding |-> speaker_embedding, temperature |-> temperature,
   repetition_penalty |-> repetition_penalty, top_k |-> top_k, top_p |-> top_p]

\* variant: top_p is given args.temperature
MainGenerateCallMixed(a, lat) ==
  generate_speech(a.text, lat.gpt_cond_latent, lat.speaker_embedding, a.language,
                  a.temperature, a.repetition_penalty, a.top_k, a.temperature)

\* lines 200-210: the call of generate_speech in main
MainGenerateCall(a, lat) ==
  generate_speech(a.text, lat.gpt_cond_latent, lat.speaker_embedding, a.language,
                  a.temperature, a.repetition_penalty, a.top_k, a.top_p)

\* what model.inference may return: a dict with or without a "wav" buffer
InferenceResults ==
  {[hasWav |-> FALSE, wav |-> [kind |-> "ndarray", shape |-> <<>>]]}
  \cup {[hasWav |-> TRUE, wav |-> [kind |-> "ndarray", shape |-> s]] : s \in WavShapes}

\* lines 63-88 called from lines 200-210
GenerateSpeech ==
  /\ pc = "generate_speech"
  /\ \E ok \in BOOLEAN, out \in InferenceResults :
       /\ inferenceCall' = <<MainGenerateCall(args[1], latents[1])>>
       /\ audio_output' = IF ok THEN <<out>> ELSE audio_output
       /\ StepReturns("generate_speech", IF ok THEN "" ELSE "inference: Exception",
                      <<Msg("Generating speech for text", args[1].text)>>, "to_tensor")
  /\ UNCHANGED <<installed, fs, outFile0, outFile, argv, args, ckpt, model, latents,
                 latentsCall, audio_tensor, saveCall>>

\* torch.tensor(x): a tensor with the data and shape of x
torch_tensor(x) == [kind |-> "tensor", shape |-> x.shape]

\* line 213: audio_tensor = torch.tensor(audio_output["wav"])
ToTensor ==
  /\ pc = "to_tensor"
  /\ IF audio_output[1].hasWav
     THEN /\ audio_tensor' = <<torch_tensor(audio_output[1].wav)>>
          /\ pc' = "save_audio"
          /\ UNCHANGED <<stderr, exitCode>>
     ELSE /\ audio_tensor' = audio_tensor
          /\ Raise(<<>>, "KeyError")
  /\ UNCHANGED <<installed, fs, outFile0, outFile, argv, args, steps, ckpt, model,
                 latents, latentsCall, inferenceCall, audio_output, saveCall>>

\* lines 95-101: the tensor save_audio passes to the writer
NormalizeAudio(t) ==
  LET t1 == IF t.kind # "tensor" THEN torch_tensor(t) ELSE t IN
  IF Len(t1.shape) = 1 THEN [t1 EXCEPT !.shape = <<1>> \o t1.shape] ELSE t1

\* variant: the sample rate is read from the model configuration
ConfiguredSampleRate(m) == m.output_sample_rate

\* lines 91 and 214: main gives save_audio no sample_rate, so the default of
\* the signature is used whatever the model handle m is configured with
MainSampleRate(m) == DefaultSampleRate

\* lines 91-104 called from line 214.  wrote: torchaudio.save returned;
\* partial: a failed torchaudio.save left a damaged file behind
SaveAudio ==
  /\ pc = "save_audio"
  /\ IF "torchaudio" \notin installed
     THEN /\ StepReturns("save_audio", "import torchaudio: ModuleNotFoundError", <<>>,
                         "success")
          /\ UNCHANGED <<saveCall, outFile>>
     ELSE \E wrote \in BOOLEAN, partial \in BOOLEAN :
            /\ saveCall' = <<[path |-> args[1].output,
                              tensor |-> NormalizeAudio(audio_tensor[1]),
                              sample_rate |-> MainSampleRate(model[1])]>>
            /\ outFile' = IF wrote THEN "new" ELSE IF partial THEN "partial" ELSE outFile
            /\ StepReturns("save_audio", IF wrote THEN "" ELSE "torchaudio.save: Exception",
                           IF wrote THEN <<Msg("Audio saved to", args[1].output)>> ELSE <<>>,
                           "success")
  /\ UNCHANGED <<installed, fs, outFile0, argv, args, ckpt, model, latents,
                 latentsCall, inferenceCall, audio_output, audio_tensor>>

\* line 216, then main returns and the interpreter exits with status 0
PrintSuccess ==
  /\ pc = "success"
  /\ Exit(<<Msg("SUCCESS", "")>>, 0)
  /\ UNCHANGED <<installed, fs, outFile0, outFile, argv, args, steps, ckpt, model,
                 latents, latentsCall, inferenceCall, audio_output, audio_tensor,
                 saveCall>>

Next ==
  \/ ImportGuard
  \/ ParseArgs
  \/ CheckBaseModel
  \/ CheckFinetuned
  \/ CheckReferenceAudio
  \/ LoadModel
  \/ ComputeSpeakerLatents
  \/ GenerateSpeech
  \/ ToTensor
  \/ SaveAudio
  \/ PrintSuccess

Spec == Init /\ [][Next]_vars

------------------------------------------------------------------------------
(* Vocabulary of the properties *)

Exited == pc = "exited"
Parsed == Len(args) = 1
Printed(kind) == \E i \in 1..Len(stderr) : stderr[i].kind = kind
PathErrorTexts ==
  {"ERROR: Base model not found", "ERROR: Finetuned checkpoint not found",
   "ERROR: Reference audio not found"}
IsPathError(m) == m.kind \in PathErrorTexts
PathErrors == SelectSeq(stderr, IsPathError)
Invoked(fn) == \E i \in 1..Len(steps) : steps[i].fn = fn
HintPrinted ==
  /\ Printed("ERROR: Required packages not installed. Install with:")
  /\ Printed("pip install TTS torch")
\* the command line, once read, parsed; and the three input paths exist
WellFormedRun == fs = RequiredPaths /\ (Len(argv) = 1 => Parsed)
HelpAsked == Len(argv) = 1 /\ ~Parsed /\ exitCode = <<0>>

\* the first required path, in the order of the checks, that does not exist
FirstMissing ==
  IF BasePath \notin fs THEN Msg("ERROR: Base model not found", BasePath)
  ELSE IF FinetunedPath \notin fs
  THEN Msg("ERROR: Finetuned checkpoint not found", FinetunedPath)
  ELSE Msg("ERROR: Reference audio not found", ReferencePath)

\* the value the command line gives for `flag`: the converted token of its last
\* occurrence, or `default` when the flag does not occur
GivenOr(flag, default) ==
  LET opt == argv[1].opt
      at == {i \in 1..Len(opt) : opt[i].flag = flag}
  IN IF at = {} THEN default
     ELSE Convert(flag, opt[CHOOSE i \in at : \A j \in at : j <= i].tok)[1]

NamesDiffer(sd) == DOMAIN sd # DOMAIN BaseStateDict
ShapeConflict(sd) ==
  \E n \in DOMAIN sd \cap DOMAIN BaseStateDict : sd[n] # BaseStateDict[n]
CheckpointRead == Len(ckpt) = 1 /\ ckpt[1].readable /\ ckpt[1].hasModel

------------------------------------------------------------------------------
(* Claims *)

\* C1 (as stated): in a run that reaches path validation, for each required
\* path that does not exist the process exits with code 1 after a message
\* naming that very path, and load_model is never invoked.
C1_EveryMissingPathNamed ==
  \A p \in RequiredPaths :
    (Parsed /\ p \notin fs) =>
      /\ ~Invoked("load_model")
      /\ Exited => /\ exitCode = <<1>>
                   /\ \E i \in 1..Len(stderr) : IsPathError(stderr[i]) /\ stderr[i].arg = p

\* C1 (amended): in a run that reaches path validation with some required path
\* missing, no delegated step is ever invoked, and the process exits with code
\* 1 after exactly one message, which names the first missing path in the
\* order base model, finetuned checkpoint, reference audio.
C1_FirstMissingPathNamed ==
  (Parsed /\ fs # RequiredPaths) =>
    /\ steps = <<>>
    /\ pc \notin {"load_model", "compute_speaker_latents", "generate_speech",
                  "to_tensor", "save_audio", "success"}
    /\ Exited => (exitCode = <<1>> /\ stderr = <<FirstMissing>>)

C1_Witness ==
  /\ Exited /\ Parsed
  /\ BasePath \in fs /\ FinetunedPath \notin fs /\ ReferencePath \notin fs
  /\ stderr = <<Msg("ERROR: Finetuned checkpoint not found", FinetunedPath)>>
  /\ exitCode = <<1>>

\* C2 (as stated, for runs given a well-formed command line and existing input
\* paths): whenever any third-party package the script imports is missing
\* (torch, TTS, or torchaudio), the run ends with exit code 1 and the
\* installation hint, without the command line having been parsed and without
\* any delegated step having started.
C2_MissingPackageReportedFirst ==
  (Packages \ installed # {} /\ WellFormedRun /\ Exited) =>
    /\ exitCode = <<1>> /\ HintPrinted
    /\ ~Parsed
    /\ steps = <<>>

\* C3: the delegated steps are invoked in the order load_model,
\* compute_speaker_latents, generate_speech, save_audio; each at most once; a
\* step is invoked only when every earlier one has returned; after a step
\* that raised nothing else runs.
C3_StepsInStrictOrder ==
  /\ Len(steps) <= Len(StepOrder)
  /\ \A i \in 1..Len(steps) :
       /\ steps[i].fn = StepOrder[i]
       /\ i < Len(steps) => steps[i].ok
  /\ \A i \in 1..Len(StepOrder) : pc = StepOrder[i] => Len(steps) = i - 1
  /\ (Len(steps) > 0 /\ ~steps[Len(steps)].ok) => Exited
  /\ pc = "success" => Len(steps) = Len(StepOrder)

C3_Witness ==
  /\ Len(steps) = Len(StepOrder)
  /\ \A i \in 1..Len(steps) : steps[i].ok
  /\ Exited

\* C4: SUCCESS is printed, and the exit status is 0 with it, only when path
\* validation passed and all four delegated steps returned; it is the line
\* after the writer's, with the file written; a run in which a delegated step
\* raised never prints SUCCESS and exits non-zero; exit status 0 without
\* SUCCESS happens only for the help flag.
C4_SuccessOnlyAfterAllSteps ==
  /\ Printed("SUCCESS") =>
       /\ Parsed /\ fs = RequiredPaths
       /\ Len(steps) = Len(StepOrder) /\ \A i \in 1..Len(steps) : steps[i].ok
       /\ Len(stderr) >= 2
       /\ stderr[Len(stderr)].kind = "SUCCESS"
       /\ stderr[Len(stderr) - 1] = Msg("Audio saved to", OutputPath)
       /\ outFile = "new"
       /\ exitCode = <<0>>
  /\ (\E i \in 1..Len(steps) : ~steps[i].ok) =>
       /\ ~Printed("SUCCESS")
       /\ Exited /\ Len(exitCode) = 1 /\ exitCode[1] # 0
  /\ (Printed("traceback") /\ Exited) => exitCode = <<1>>
  /\ exitCode = <<0>> => (Printed("SUCCESS") \/ HelpAsked)

C4_Witness == Printed("SUCCESS") /\ exitCode = <<0>> /\ outFile0 = "absent"

\* C5 (as stated): whenever the checkpoint's parameter names or shapes differ
\* from the base architecture, load_model fails: no handle, no later step.
C5_StructureMismatchFailsLoad ==
  (CheckpointRead /\ (NamesDiffer(ckpt[1].sd) \/ ShapeConflict(ckpt[1].sd))) =>
    /\ Len(model) = 0
    /\ steps = <<[fn |-> "load_model", ok |-> FALSE]>>

\* C5 (amended): load_model fails, with no handle returned and no later step
\* run, whenever a parameter the checkpoint shares with the base architecture
\* has another shape; that is the only way the weight loading itself fails: a
\* checkpoint whose parameter names merely differ from the base's is accepted.
C5_ShapeConflictFailsLoad ==
  /\ (CheckpointRead /\ ShapeConflict(ckpt[1].sd)) =>
       /\ Len(model) = 0
       /\ steps = <<[fn |-> "load_model", ok |-> FALSE]>>
       /\ Exited /\ exitCode = <<1>>
  /\ (\E i \in 1..Len(stderr) :
         stderr[i] = Msg("traceback", "load_state_dict: RuntimeError"))
       => (CheckpointRead /\ ShapeConflict(ckpt[1].sd))

C5_Witness ==
  /\ CheckpointRead /\ ShapeConflict(ckpt[1].sd) /\ NamesDiffer(ckpt[1].sd)
  /\ Exited /\ Len(model) = 0

\* C6 (as stated): whatever the number of dimensions of the buffer, the tensor
\* passed to the WAV writer is two-dimensional; a 1-D buffer of n samples
\* becomes (1, n), a 2-D buffer is passed unchanged.
C6_WriterGetsTwoDimensions ==
  Len(saveCall) = 1 =>
    LET given == audio_tensor[1].shape
        passed == saveCall[1].tensor.shape
    IN /\ Len(passed) = 2
       /\ Len(given) = 1 => passed = <<1>> \o given
       /\ Len(given) = 2 => passed = given

\* C7: every call of the WAV writer carries the sample rate 24000, whatever
\* the flags, the model configuration and the inference result are.
C7_SampleRateFixed ==
  Len(saveCall) = 1 => saveCall[1].sample_rate = 24000

C7_Witness ==
  /\ Len(saveCall) = 1 /\ outFile = "new"
  /\ model[1].output_sample_rate = 22050
  /\ Len(argv[1].opt) > 0

\* C8: the file at the output path differs from what it was before the run
\* only if validation passed, load, latents and inference returned and the
\* writer was called; until then it is untouched; a write that returns
\* replaces whatever was there.
C8_OutputAllOrNothing ==
  /\ outFile # outFile0 =>
       /\ Parsed /\ fs = RequiredPaths
       /\ Len(steps) = Len(StepOrder)
       /\ \A i \in 1..3 : steps[i].ok
       /\ Len(saveCall) = 1 /\ saveCall[1].path = OutputPath
  /\ Len(steps) < Len(StepOrder) => outFile = outFile0
  /\ (Len(steps) = Len(StepOrder) /\ steps[Len(steps)].ok) => outFile = "new"

C8_Witness == outFile0 = "old" /\ outFile = "new" /\ Exited

\* C9: the keyword arguments of model.inference are the command line's: the
\* text, and for language, temperature, repetition penalty, top-k and top-p
\* the converted token when the flag is given, the documented default when it
\* is not; the latents are the pair that the one call of
\* get_conditioning_latents, on the reference audio path, returned.
C9_InferenceGetsCallerValues ==
  Len(inferenceCall) = 1 =>
    LET k == inferenceCall[1] IN
    /\ k.text = TextValue
    /\ k.language = GivenOr("language", <<"c", "s">>)
    /\ k.temperature = GivenOr("temperature", 75)
    /\ k.repetition_penalty = GivenOr("repetition_penalty", 300)
    /\ k.top_k = GivenOr("top_k", 50)
    /\ k.top_p = GivenOr("top_p", 85)
    /\ latentsCall = <<[audio_path |-> <<ReferencePath>>]>>
    /\ k.gpt_cond_latent = latents[1].gpt_cond_latent
    /\ k.speaker_embedding = latents[1].speaker_embedding
    /\ k.gpt_cond_latent.kind = "gpt_cond_latent"
    /\ k.speaker_embedding.kind = "speaker_embedding"
    /\ Cardinality({i \in 1..Len(steps) : steps[i].fn = "compute_speaker_latents"}) = 1

C9_Witness ==
  /\ Len(inferenceCall) = 1
  /\ argv[1].opt = <<[flag |-> "top_p", tok |-> <<"0", ".", "5">>]>>
  /\ inferenceCall[1].top_p = 50
  /\ inferenceCall[1].temperature = 75

\* C10: path validation stops at the first missing path in the order base
\* model, finetuned checkpoint, reference audio: a run prints at most one
\* path error, it names the first missing path, the process then exits with
\* code 1, and a path after a missing one is never checked.
C10_ShortCircuitValidation ==
  /\ Len(PathErrors) <= 1
  /\ Len(PathErrors) = 1 =>
       /\ PathErrors[1] = FirstMissing
       /\ Exited /\ exitCode = <<1>>
  /\ BasePath \notin fs => pc \notin {"check_finetuned", "check_reference_audio"}
  /\ FinetunedPath \notin fs => pc # "check_reference_audio"

C10_Witness ==
  /\ Exited /\ Parsed
  /\ BasePath \notin fs /\ FinetunedPath \notin fs
  /\ PathErrors = <<Msg("ERROR: Base model not found", BasePath)>>
====
